---- MODULE Spec2Model ----
(***************************************************************************)
(* The POST /parse-epub handler of the EPUB parsing service, in its four   *)
(* drafts:                                                                 *)
(*   "first"    src/index.js lines 1-122    (epub-parse, default export)   *)
(*   "second"   src/index.js lines 123-248  (epub-parse, named parse)      *)
(*   "nodeEpub" src/unnamed/part_000        (node-epub, two awaits)        *)
(*   "epub"     src/unnamed/part_001        (epub, 'end'/'error' events)   *)
(*                                                                         *)
(* A JavaScript string is a sequence of one-character strings.  A text     *)
(* constant of the source that is not ASCII is one token, or as many       *)
(* tokens as it has characters where its length matters; the original is   *)
(* given in the comment next to it.                                        *)
(***************************************************************************)
EXTENDS Integers, Sequences, FiniteSets, TLC

VARIABLES
    draft,      \* which draft of the handler is deployed
    upload,     \* request -> what multer hands the handler (req.file and the EPUB behind it)
    pc,         \* request -> position of the async handler
    file,       \* request -> state of the temp file /tmp/<name>
    promise,    \* request -> state of the promise the handler awaits
    events,     \* request -> events the epub emitter has emitted so far
    responses,  \* request -> the responses written to res, in order
    text,       \* input of the text functions (TextSpec)
    once,       \* text with the tag pattern removed
    twice,      \* once with the tag pattern removed again
    preview     \* contentPreview of text in the deployed draft

vars == <<draft, upload, pc, file, promise, events, responses,
          text, once, twice, preview>>

handlerVars == <<draft, upload, pc, file, promise, events, responses>>
textVars == <<text, once, twice, preview>>

-----------------------------------------------------------------------------
(* Bounds *)

MaxRequests == 2     \* concurrent requests in Spec
MaxSections == 2     \* sections of an uploaded book
MaxClock == 2        \* distinct readings of Date.now() during one map
MaxLen == 6          \* length of the short texts of TextSpec
MaxSlack == 2        \* long texts run from limit - MaxSlack to limit + MaxSlack

-----------------------------------------------------------------------------
(* JavaScript values *)

Drafts == {"first", "second", "nodeEpub", "epub"}

Chars == {"<", ">", "a", " "}

\* undefined (a missing property); no string of the model equals it
Undefined == <<"undefined">>

\* a value JavaScript's || and ?: and && take as true: not undefined, not ''
Truthy(v) == v # Undefined /\ v # <<>>

\* a || b
Or(a, b) == IF Truthy(a) THEN a ELSE b

Min(a, b) == IF a < b THEN a ELSE b

\* s.substring(0, n)
Substring(s, n) == SubSeq(s, 1, Min(n, Len(s)))

RECURSIVE TrimStart(_)
TrimStart(s) ==
    IF s # <<>> /\ Head(s) = " " THEN TrimStart(Tail(s)) ELSE s

RECURSIVE TrimEnd(_)
TrimEnd(s) ==
    IF s # <<>> /\ s[Len(s)] = " " THEN TrimEnd(SubSeq(s, 1, Len(s) - 1)) ELSE s

\* s.trim()
Trim(s) == TrimEnd(TrimStart(s))

\* a text of n letters
Run(n) == [i \in 1..n |-> "a"]

-----------------------------------------------------------------------------
(* The tag pattern /<[^>]+>/g *)

\* a plausible slip: the class written [^<>], so a tag may not hold a "<"
InTagClassNoLt(c) == c # ">" /\ c # "<"

\* the character class of the pattern: [^>] takes any character but ">"
InTagClass(c) == c # ">"

SetMin(S) == CHOOSE x \in S : \A y \in S : x <= y

\* index of the last character of the match of <[^>]+> that starts at i, 0 when
\* none starts there: "<", then at least one character of the class up to the
\* first ">" after it
TagEnd(s, i) ==
    LET closers == {j \in (i + 2)..Len(s) : s[j] = ">"}
    IN  IF s[i] = "<" /\ closers # {}
           /\ \A k \in (i + 1)..(SetMin(closers) - 1) : InTagClass(s[k])
        THEN SetMin(closers)
        ELSE 0

\* index of the first "<" of s at or after i, Len(s) + 1 when there is none
NextLt(s, i) ==
    LET opens == {j \in i..Len(s) : s[j] = "<"}
    IN  IF opens = {} THEN Len(s) + 1 ELSE SetMin(opens)

\* the scan of a global replace from index i on: a match is dropped and the
\* scan goes on behind it; a "<" that starts no match and the text up to the
\* next "<" are kept
RECURSIVE StripFrom(_, _)
StripFrom(s, i) ==
    IF i > Len(s) THEN <<>>
    ELSE IF s[i] # "<" THEN SubSeq(s, i, NextLt(s, i) - 1) \o StripFrom(s, NextLt(s, i))
    ELSE IF TagEnd(s, i) # 0 THEN StripFrom(s, TagEnd(s, i) + 1)
    ELSE <<s[i]>> \o StripFrom(s, i + 1)

\* s.replace(/<[^>]+>/g, '')
StripTags(s) == StripFrom(s, 1)

-----------------------------------------------------------------------------
(* contentPreview *)

\* the marker '...'
Marker == <<".", ".", ".">>

\* the preview of a chapter with no content in the nodeEpub and epub drafts
\* (three characters in the source)
NoContent == <<"wu", "nei", "rong">>

PreviewLimitFirst == 200
PreviewLimit == 300

\* first draft: the first 200 characters of the markup, then stripped
ContentPreviewFirst(content) ==
    IF Len(content) > PreviewLimitFirst
    THEN StripTags(Substring(content, PreviewLimitFirst)) \o Marker
    ELSE StripTags(content)

\* second draft: stripped, then the first 300 characters; the marker goes by
\* the length of the markup
ContentPreviewSecond(content) ==
    Substring(StripTags(content), PreviewLimit)
        \o (IF Len(content) > PreviewLimit THEN Marker ELSE <<>>)

\* nodeEpub and epub drafts: the marker is appended to every non-empty content
ContentPreviewEpub(content) ==
    IF Truthy(content)
    THEN Substring(StripTags(content), PreviewLimit) \o Marker
    ELSE NoContent

ContentPreview(d, content) ==
    CASE d = "first" -> ContentPreviewFirst(content)
      [] d = "second" -> ContentPreviewSecond(content)
      [] OTHER -> ContentPreviewEpub(content)

-----------------------------------------------------------------------------
(* Chapters *)

\* the predicate of .filter(...); the nodeEpub and epub drafts do not filter
RetainedFirst(section) == Truthy(section.content)

\* a plausible slip: the trim left out, as in the first draft
RetainedSecondNoTrim(section) == Truthy(section.content)

RetainedSecond(section) ==
    Truthy(section.content) /\ Trim(section.content) # <<>>

Retained(d, section) ==
    CASE d = "first" -> RetainedFirst(section)
      [] d = "second" -> RetainedSecond(section)
      [] OTHER -> TRUE

\* a plausible slip: the index taken as it comes, 0-based
ChapterIndex0(index) == index

\* chapterIndex: index + 1, index the 0-based position map hands the callback
ChapterIndex(index) == index + 1

\* a plausible slip: the length taken after the tags are removed
StrippedContentLength(section) == Len(StripTags(section.content))

\* section.content.length: contentLength (first draft), rawContentLength (second)
RawContentLength(section) == Len(section.content)

\* the placeholder title of a chapter without one
DefaultTitle(d, section, index) ==
    CASE d = "first" -> <<"UntitledChapter", ToString(section.index + 1)>>
      [] d = "second" -> <<"Chapter", ToString(index + 1), "Untitled">>
      [] OTHER -> <<"Chapter", ToString(index + 1)>>

\* Date.now() + Math.random().toString(36).substr(2, 9)
SynthId(now, suffix) == <<ToString(now), suffix>>

\* the chapter record the callback of .map(...) builds for a section; index is
\* 0-based, e is what Date.now() and Math.random() gave during this call
ChapterOf(d, section, index, e) ==
    CASE d = "first" ->
            [ id |-> Or(section.id, SynthId(e.now, e.suffix)),
              title |-> Or(section.title, DefaultTitle(d, section, index)),
              contentPreview |-> ContentPreview(d, section.content),
              contentLength |-> RawContentLength(section) ]
      [] d = "second" ->
            [ chapterIndex |-> ChapterIndex(index),
              title |-> Or(section.title, DefaultTitle(d, section, index)),
              contentPreview |-> ContentPreview(d, section.content),
              rawContentLength |-> RawContentLength(section) ]
      [] d = "nodeEpub" ->
            [ chapterIndex |-> ChapterIndex(index),
              title |-> Or(section.title, DefaultTitle(d, section, index)),
              contentPreview |-> ContentPreview(d, section.content) ]
      [] OTHER ->
            [ chapterIndex |-> ChapterIndex(index),
              title |-> Or(section.title, DefaultTitle(d, section, index)),
              id |-> section.id,
              contentPreview |-> ContentPreview(d, section.content) ]

\* sections.filter(...)
FilterSections(d, sections) ==
    SelectSeq(sections, LAMBDA section : Retained(d, section))

\* sections.filter(...).map(...)
Chapters(d, sections, entropy) ==
    LET kept == FilterSections(d, sections)
    IN  [i \in 1..Len(kept) |-> ChapterOf(d, kept[i], i - 1, entropy[i])]

-----------------------------------------------------------------------------
(* Book metadata *)

MetaFields == {"title", "creator", "publisher", "date", "language"}

\* the default strings of the source: '未知标题', '未知作者', '未知出版社',
\* '未知出版日期' (first draft) or '未知日期', '未知语言'
DefaultMeta(d, f) ==
    CASE f = "title" -> <<"UnknownTitle">>
      [] f = "creator" -> <<"UnknownAuthor">>
      [] f = "publisher" -> <<"UnknownPublisher">>
      [] f = "date" -> IF d = "first" THEN <<"UnknownPublicationDate">>
                       ELSE <<"UnknownDate">>
      [] OTHER -> <<"UnknownLanguage">>

\* the key of bookMeta that carries the metadata field f
OutField(d, f) ==
    CASE f = "creator" -> "author"
      [] f = "date" -> IF d = "first" THEN "publicationDate"
                       ELSE IF d = "second" THEN "publishDate"
                       ELSE "date"
      [] OTHER -> f

\* the metadata fields the draft returns: nodeEpub and epub return no language
ReturnedFields(d) ==
    IF d \in {"first", "second"} THEN MetaFields ELSE MetaFields \ {"language"}

\* a plausible slip: the field passed through without its default
MetaFieldRaw(d, metadata, f) == metadata[f]

\* metadata.f || '<default>'
MetaField(d, metadata, f) == Or(metadata[f], DefaultMeta(d, f))

\* the object bookInfo (first draft) or bookMeta (the other drafts)
BookMeta(d, metadata) ==
    CASE d = "first" ->
            [ title |-> MetaField(d, metadata, "title"),
              author |-> MetaField(d, metadata, "creator"),
              publisher |-> MetaField(d, metadata, "publisher"),
              publicationDate |-> MetaField(d, metadata, "date"),
              language |-> MetaField(d, metadata, "language") ]
      [] d = "second" ->
            [ title |-> MetaField(d, metadata, "title"),
              author |-> MetaField(d, metadata, "creator"),
              publisher |-> MetaField(d, metadata, "publisher"),
              publishDate |-> MetaField(d, metadata, "date"),
              language |-> MetaField(d, metadata, "language") ]
      [] OTHER ->
            [ title |-> MetaField(d, metadata, "title"),
              author |-> MetaField(d, metadata, "creator"),
              publisher |-> MetaField(d, metadata, "publisher"),
              date |-> MetaField(d, metadata, "date") ]

-----------------------------------------------------------------------------
(* What a request uploads, and what the parser makes of it *)

Requests == 1..MaxRequests

Faults == {"none", "container", "content"}

Contents == {Undefined, <<>>, <<" ">>, <<"a">>, <<"<", "a", ">">>}

SectionIds == {Undefined, <<"s1">>}

SectionTitles == {Undefined, <<"T">>}

MetaValues == {Undefined, <<>>, <<"a">>}

Sections == [id : SectionIds, title : SectionTitles, content : Contents]

SectionLists == UNION {[1..n -> Sections] : n \in 0..MaxSections}

Metadatas == [MetaFields -> MetaValues]

FullMetadata == [f \in MetaFields |-> <<"a">>]

SampleSections ==
    << [id |-> <<"s1">>, title |-> <<"T">>, content |-> <<"<", "a", ">">>],
       [id |-> <<"s2">>, title |-> Undefined, content |-> <<"a">>] >>

Epub(fault, metadata, sections) ==
    [fault |-> fault, metadata |-> metadata, sections |-> sections]

\* req.file is undefined
NoFile == [hasFile |-> FALSE, epub |-> Epub("none", FullMetadata, <<>>)]

Uploaded(epub) == [hasFile |-> TRUE, epub |-> epub]

\* the uploads of Spec: no file, a book, and the book with each fault
ServerUploads ==
    {NoFile} \cup {Uploaded(Epub(f, FullMetadata, SampleSections)) : f \in Faults}

\* the uploads of BookSpec: those of Spec, every metadata with the sample
\* sections, and every list of sections with full metadata
BookUploads ==
    ServerUploads
    \cup {Uploaded(Epub("none", m, SampleSections)) : m \in Metadatas}
    \cup {Uploaded(Epub("none", FullMetadata, s)) : s \in SectionLists}

\* book.sections as the parser returns it: each section knows its 0-based index
ParsedSections(epub) ==
    [i \in 1..Len(epub.sections) |->
        [ id |-> epub.sections[i].id,
          title |-> epub.sections[i].title,
          content |-> epub.sections[i].content,
          index |-> i - 1 ]]

\* one reading of Date.now() and Math.random() for a section without an id;
\* the || does not evaluate its right side for a section that has one
Suffixes == {"k3x", "9qz"}

Readings == [now : 1..MaxClock, suffix : Suffixes]

NoReading == [now |-> 0, suffix |-> ""]

\* the readings of one .map(...) over the retained sections: the clock does not
\* run backwards
Entropies(d, kept) ==
    { e \in [1..Len(kept) -> Readings \cup {NoReading}] :
        /\ \A i \in 1..Len(kept) :
              (e[i] # NoReading) <=> (d = "first" /\ ~Truthy(kept[i].id))
        /\ \A i, j \in 1..Len(kept) :
              (i < j /\ e[i] # NoReading /\ e[j] # NoReading)
                  => e[i].now <= e[j].now }

-----------------------------------------------------------------------------
(* Responses *)

StatusOk == 200
StatusNoFile == 400
StatusFailed == 500

\* res.status(200).json({code: 200, ..., data: {bookMeta, chapterCount, chapters}});
\* the first draft names bookMeta bookInfo
SuccessResponse(d, epub, entropy) ==
    LET chapters == Chapters(d, ParsedSections(epub), entropy)
    IN  [ status |-> StatusOk,
          bookMeta |-> BookMeta(d, epub.metadata),
          chapterCount |-> Len(chapters),
          chapters |-> chapters ]

\* res.status(code).json({code, error, ...})
ErrorResponse(code) ==
    [ status |-> code, bookMeta |-> <<>>, chapterCount |-> 0, chapters |-> <<>> ]

-----------------------------------------------------------------------------
(* The handler *)

\* the first await of the draft
FirstAwait(d) == IF d = "nodeEpub" THEN "awaitMetadata" ELSE "awaitParse"

\* the await after which the handler builds its response
LastAwait(d) == IF d = "nodeEpub" THEN "awaitChapters" ELSE "awaitParse"

\* a plausible slip: a later resolve or reject overrides the first
SettleLast(p, outcome) == outcome

\* resolve or reject of a promise: only a pending promise settles
Settle(p, outcome) == IF p = "pending" THEN outcome ELSE p

\* whether the promise the handler awaits at pc[r] is fulfilled by the parser:
\* a damaged container fails every call, damaged content fails the reading of
\* the chapters
ParserSucceeds(r) ==
    \/ upload[r].epub.fault = "none"
    \/ upload[r].epub.fault = "content" /\ pc[r] = "awaitMetadata"

\* entry of the handler up to its first await: no file, 400 and return;
\* otherwise the parser is started on req.file.path
Handle(r) ==
    /\ pc[r] = "received"
    /\ IF ~upload[r].hasFile
       THEN /\ responses' = [responses EXCEPT ![r] = Append(@, ErrorResponse(StatusNoFile))]
            /\ pc' = [pc EXCEPT ![r] = "done"]
            /\ UNCHANGED promise
       ELSE /\ pc' = [pc EXCEPT ![r] = FirstAwait(draft)]
            /\ promise' = [promise EXCEPT ![r] = "pending"]
            /\ UNCHANGED responses
    /\ UNCHANGED <<draft, upload, file, events, textVars>>

\* the promise of EpubParse(path), getMetadata() or getChapters() is fulfilled
ParserResolve(r) ==
    /\ draft # "epub"
    /\ promise[r] = "pending"
    /\ ParserSucceeds(r)
    /\ promise' = [promise EXCEPT ![r] = Settle(@, "resolved")]
    /\ UNCHANGED <<draft, upload, pc, file, events, responses, textVars>>

\* the promise of EpubParse(path), getMetadata() or getChapters() is rejected
ParserReject(r) ==
    /\ draft # "epub"
    /\ promise[r] = "pending"
    /\ ~ParserSucceeds(r)
    /\ promise' = [promise EXCEPT ![r] = Settle(@, "rejected")]
    /\ UNCHANGED <<draft, upload, pc, file, events, responses, textVars>>

\* the emitter emits 'end': book.on('end', () => resolve(book)).  On a damaged
\* book the library emits 'error'; whether it then still runs to its 'end', or
\* reports the error only after it, is the library's affair, so either order
\* is taken.
EmitEnd(r) ==
    /\ draft = "epub"
    /\ promise[r] # "none"
    /\ \A i \in 1..Len(events[r]) : events[r][i] # "end"
    /\ events' = [events EXCEPT ![r] = Append(@, "end")]
    /\ promise' = [promise EXCEPT ![r] = Settle(@, "resolved")]
    /\ UNCHANGED <<draft, upload, pc, file, responses, textVars>>

\* the emitter emits 'error': book.on('error', (err) => reject(err))
EmitError(r) ==
    /\ draft = "epub"
    /\ promise[r] # "none"
    /\ upload[r].epub.fault # "none"
    /\ \A i \in 1..Len(events[r]) : events[r][i] # "error"
    /\ events' = [events EXCEPT ![r] = Append(@, "error")]
    /\ promise' = [promise EXCEPT ![r] = Settle(@, "rejected")]
    /\ UNCHANGED <<draft, upload, pc, file, responses, textVars>>

\* nodeEpub: getMetadata() is fulfilled, the handler calls getChapters()
AwaitChapters(r) ==
    /\ draft = "nodeEpub"
    /\ pc[r] = "awaitMetadata"
    /\ promise[r] = "resolved"
    /\ pc' = [pc EXCEPT ![r] = "awaitChapters"]
    /\ promise' = [promise EXCEPT ![r] = "pending"]
    /\ UNCHANGED <<draft, upload, file, events, responses, textVars>>

\* the handler after its last await: unlinkSync in its own try (a failure is
\* logged and the file stays), the chapters, the 200 response
Respond(r) ==
    /\ pc[r] = LastAwait(draft)
    /\ promise[r] = "resolved"
    /\ \E unlinked \in BOOLEAN :
          file' = [file EXCEPT ![r] = IF unlinked THEN "deleted" ELSE @]
    /\ \E entropy \in Entropies(draft, FilterSections(draft, ParsedSections(upload[r].epub))) :
          responses' = [responses EXCEPT
                           ![r] = Append(@, SuccessResponse(draft, upload[r].epub, entropy))]
    /\ pc' = [pc EXCEPT ![r] = "done"]
    /\ UNCHANGED <<draft, upload, promise, events, textVars>>

\* the catch of the handler: an await threw, the 500 response
Catch(r) ==
    /\ pc[r] \in {"awaitParse", "awaitMetadata", "awaitChapters"}
    /\ promise[r] = "rejected"
    /\ responses' = [responses EXCEPT ![r] = Append(@, ErrorResponse(StatusFailed))]
    /\ pc' = [pc EXCEPT ![r] = "done"]
    /\ UNCHANGED <<draft, upload, file, promise, events, textVars>>

HandlerStep(r) ==
    Handle(r) \/ AwaitChapters(r) \/ Respond(r) \/ Catch(r)

ParserStep(r) ==
    ParserResolve(r) \/ ParserReject(r) \/ EmitEnd(r) \/ EmitError(r)

InitHandler(requests, uploads) ==
    /\ draft \in Drafts
    /\ upload \in [requests -> uploads]
    /\ pc = [r \in requests |-> "received"]
    /\ file = [r \in requests |-> IF upload[r].hasFile THEN "exists" ELSE "none"]
    /\ promise = [r \in requests |-> "none"]
    /\ events = [r \in requests |-> <<>>]
    /\ responses = [r \in requests |-> <<>>]
    /\ text = <<>>
    /\ once = Undefined
    /\ twice = Undefined
    /\ preview = Undefined

Init == InitHandler(Requests, ServerUploads)

InitBook == InitHandler({1}, BookUploads)

\* each step of the handler or of the parser, taken by some request
SomeHandle == \E r \in DOMAIN pc : Handle(r)
SomeParserResolve == \E r \in DOMAIN pc : ParserResolve(r)
SomeParserReject == \E r \in DOMAIN pc : ParserReject(r)
SomeEmitEnd == \E r \in DOMAIN pc : EmitEnd(r)
SomeEmitError == \E r \in DOMAIN pc : EmitError(r)
SomeAwaitChapters == \E r \in DOMAIN pc : AwaitChapters(r)
SomeRespond == \E r \in DOMAIN pc : Respond(r)
SomeCatch == \E r \in DOMAIN pc : Catch(r)

Next ==
    \/ SomeHandle
    \/ SomeParserResolve
    \/ SomeParserReject
    \/ SomeEmitEnd
    \/ SomeEmitError
    \/ SomeAwaitChapters
    \/ SomeRespond
    \/ SomeCatch

\* concurrent requests, each with one of the uploads of ServerUploads
Spec == Init /\ [][Next]_vars

\* Spec with the event loop running every continuation that is ready, and the
\* parser library finishing every parse it started
FairSpec ==
    /\ Spec
    /\ \A r \in Requests : WF_vars(HandlerStep(r)) /\ WF_vars(ParserStep(r))

\* one request, over every book of BookUploads
BookSpec == InitBook /\ [][Next]_vars

-----------------------------------------------------------------------------
(* The text functions on their own *)

ShortTexts == UNION {[1..n -> Chars] : n \in 0..MaxLen}

TagPrefixes == {<<>>, <<"<", "a", ">">>}

LongLengths ==
    {limit + k : limit \in {PreviewLimitFirst, PreviewLimit}, k \in (0 - MaxSlack)..MaxSlack}

LongTexts == {p \o Run(n) : p \in TagPrefixes, n \in LongLengths}

Texts == ShortTexts \cup LongTexts

InitText ==
    /\ draft \in Drafts
    /\ text \in Texts
    /\ once = Undefined
    /\ twice = Undefined
    /\ preview = Undefined
    /\ upload = <<>>
    /\ pc = <<>>
    /\ file = <<>>
    /\ promise = <<>>
    /\ events = <<>>
    /\ responses = <<>>

\* text.replace(/<[^>]+>/g, '')
StripOnce ==
    /\ once = Undefined
    /\ once' = StripTags(text)
    /\ UNCHANGED <<text, twice, preview, handlerVars>>

\* the same replace on its own result
StripTwice ==
    /\ once # Undefined
    /\ twice = Undefined
    /\ twice' = StripTags(once)
    /\ UNCHANGED <<text, once, preview, handlerVars>>

\* the contentPreview of a section whose content is text
MakePreview ==
    /\ preview = Undefined
    /\ preview' = ContentPreview(draft, text)
    /\ UNCHANGED <<text, once, twice, handlerVars>>

NextText == StripOnce \/ StripTwice \/ MakePreview

TextSpec == InitText /\ [][NextText]_vars

-----------------------------------------------------------------------------
(* Properties *)

Done(r) == pc[r] = "done"

\* the response of a request that got one
Answer(r) == responses[r][1]

\* the handler answered 200
Succeeded(r) == Done(r) /\ Len(responses[r]) = 1 /\ Answer(r).status = StatusOk

\* book.sections of the request, and the sections its draft retains
Source(r) == ParsedSections(upload[r].epub)
Kept(r) == FilterSections(draft, Source(r))

\* content that is missing, empty or only whitespace
Blank(content) == ~Truthy(content) \/ Trim(content) = <<>>

\* content that is missing or is empty once its tags are removed
BlankStripped(content) == ~Truthy(content) \/ Trim(StripTags(content)) = <<>>

\* C1: when a request that uploaded a file has been answered, whether with 200
\* or with 500, its temp file has been deleted.
C1_TempFileReleased ==
    \A r \in DOMAIN pc :
        (Done(r) /\ upload[r].hasFile) => file[r] = "deleted"

LimitOf(d) == IF d = "first" THEN PreviewLimitFirst ELSE PreviewLimit

\* C3: in the drafts of src/index.js, the contentPreview of a returned chapter
\* is at most the bound plus the marker long, reaches that length only when
\* the stripped content is longer than the bound, and is the stripped content
\* itself, with no marker, when that is within the bound.
C3_PreviewBounded ==
    (/\ preview # Undefined
     /\ draft \in {"first", "second"}
     /\ Retained(draft, [content |-> text]))
        => /\ Len(preview) <= LimitOf(draft) + Len(Marker)
           /\ Len(preview) = LimitOf(draft) + Len(Marker)
                 => Len(StripTags(text)) > LimitOf(draft)
           /\ Len(StripTags(text)) <= LimitOf(draft) => preview = StripTags(text)

AllBlank(r) ==
    /\ upload[r].hasFile
    /\ upload[r].epub.fault = "none"
    /\ Len(Source(r)) >= 1
    /\ \A i \in 1..Len(Source(r)) : Blank(Source(r)[i].content)

C6_ChapterIdsUnique ==
    \A r \in DOMAIN pc :
        (Succeeded(r) /\ draft \in {"first", "epub"}) =>
            LET chapters == Answer(r).chapters
            IN  /\ \A k \in 1..Len(chapters) : Truthy(chapters[k].id)
                /\ \A j, k \in 1..Len(chapters) :
                      j # k => chapters[j].id # chapters[k].id

\* C7: the chapters of a 200 response are the sections whose content is not
\* empty once its tags are removed, numbered without a gap.
C7_EmptyStrippedDropped ==
    \A r \in DOMAIN pc :
        Succeeded(r) =>
            LET chapters == Answer(r).chapters
                nonEmpty == {i \in 1..Len(Source(r)) : ~BlankStripped(Source(r)[i].content)}
            IN  /\ Len(chapters) = Cardinality(nonEmpty)
                /\ draft # "first" =>
                      \A k \in 1..Len(chapters) : chapters[k].chapterIndex = k

\* C8: removing the tags of a text that had its tags removed changes nothing.
C8_StripIdempotent ==
    twice # Undefined => twice = once

\* a text that lost a tag and kept a "<" and a ">" has been stripped twice
C8_Witness ==
    /\ twice # Undefined
    /\ once # text
    /\ \E i \in 1..Len(once) : once[i] = "<"
    /\ \E i \in 1..Len(once) : once[i] = ">"

\* the length a chapter reports: contentLength in the first draft,
\* rawContentLength in the second
ReportedLength(chapter) ==
    IF draft = "first" THEN chapter.contentLength ELSE chapter.rawContentLength

Owed(r) ==
    IF ~upload[r].hasFile THEN StatusNoFile
    ELSE IF draft = "epub"
         THEN (IF Head(events[r]) = "end" THEN StatusOk ELSE StatusFailed)
    ELSE IF upload[r].epub.fault = "none" THEN StatusOk
    ELSE StatusFailed

\* C10: no request is answered twice, a request that is done was answered once
\* with the status owed to it, and every request is answered in the end.
C10_ExactlyOneResponse ==
    /\ [](\A r \in Requests :
            /\ Len(responses[r]) <= 1
            /\ Done(r) => (Len(responses[r]) = 1 /\ Answer(r).status = Owed(r))
            /\ Len(responses[r]) = 1 => Done(r))
    /\ <>[](\A r \in Requests : Done(r) /\ Len(responses[r]) = 1)

\* the emitter emitted 'error' and then 'end', and the request was answered
\* once, with 500
C10_Witness ==
    \E r \in DOMAIN pc :
        /\ draft = "epub"
        /\ events[r] = <<"error", "end">>
        /\ Done(r)
        /\ Len(responses[r]) = 1
        /\ Answer(r).status = StatusFailed

====
